---------------------------- MODULE Spec2Model ----------------------------
(***************************************************************************)
(* Instasights: the three scripts of the repository as state machines.     *)
(*                                                                         *)
(*   app.py        connects to the store, ensures the engagement table,    *)
(*                 loads the CSV in batches of 100 and serves /analyze,    *)
(*                 /post_types and /.                                      *)
(*   init_db.py    ensures the table and inserts the whole CSV at once.    *)
(*   push_data.py  vectorises the CSV in batches of 100 and runs one       *)
(*                 similarity search.                                      *)
(*                                                                         *)
(* The external store is the environment: each call on it either returns   *)
(* or raises.  The CSV is an input: its header spelling, the position of   *)
(* an unconvertible row and its length are chosen by the environment.      *)
(***************************************************************************)
EXTENDS Integers, Sequences, FiniteSets

VARIABLES
    script,                 \* which script runs as __main__
    pc,                     \* position of the script
    columns,                \* header spelling of the CSV file
    bad_row,                \* 0-based-index + 1 of the row whose cells int() rejects, 0 = none
    index,                  \* number of rows data.iterrows() has yielded so far
    uuids,                  \* number of uuid.uuid4() calls so far
    batch,                  \* app.py: the BatchStatement's statements
    executed,               \* app.py: session.execute(batch) calls, in order
    records,                \* init_db.py: the records list
    inserted,               \* init_db.py: db.insert_many calls, in order
    vector_store,           \* push_data.py: TRUE iff vector_store is not None
    records_to_vectorize,   \* push_data.py: the pending list
    add_texts_calls,        \* push_data.py: vector_store.add_texts calls, in order
    search_calls,           \* push_data.py: number of similarity_search calls
    similar_posts,          \* push_data.py: what analyze_post_type returned
    exc,                    \* the exception that left the script uncaught, "none" if none
    logged,                 \* the logger's records of the script's run, in order
    table,                  \* rows of the engagement table as the request path sees them
    response                \* the last HTTP response, with the session calls and the log
                            \* records its handler made

vars == <<script, pc, columns, bad_row, index, uuids, batch, executed, records,
          inserted, vector_store, records_to_vectorize, add_texts_calls,
          search_calls, similar_posts, exc, logged, table, response>>

ingestVars == <<batch, executed>>
initDbVars == <<records, inserted>>
pushVars   == <<vector_store, records_to_vectorize, add_texts_calls, search_calls, similar_posts>>
httpVars   == <<table, response>>
dataVars   == <<script, columns, bad_row>>

-----------------------------------------------------------------------------
(* Bounds *)

MaxRows == 250          \* longest CSV the environment supplies

(* Program constants *)

BATCH_EVERY == 100      \* app.py: (index + 1) % 100
batch_size  == 100      \* push_data.py: batch_size = 100
top_k       == 3        \* push_data.py: analyze_post_type("carousel", top_k=3)

None == "None"
NoResponse == [route |-> "none"]

Log(level, msg, at) == Append(logged, <<level, msg, at>>)

Range(s) == {s[i] : i \in DOMAIN s}

\* the header of social_media_engagement_data.csv, as app.py / init_db.py
\* (row['Post Type']) or as push_data.py (row['post_type']) reads it
Headers == {"Post Type", "post_type"}

\* int(row[...]) / row[...] of the row at 0-based position i raises
RowRaises(expected, i) == columns # expected \/ bad_row = i + 1

-----------------------------------------------------------------------------
(* app.py *)

\* the tuple built at app.py:95-102 from the row at position i
Record(i) == [id |-> uuids + 1, row |-> i]

AppConnect ==
    /\ script = "app.py" /\ pc = "connect"
    /\ \E ok \in BOOLEAN :
         IF ok THEN /\ pc' = "set_keyspace"
                    /\ logged' = Log("info", "Connected to Astra DB", 0)
               ELSE /\ pc' = "exited"
                    /\ logged' = Log("error", "Failed to connect to Astra DB", 0)
    /\ UNCHANGED <<dataVars, index, uuids, ingestVars, initDbVars, pushVars, exc, httpVars>>

AppSetKeyspace ==
    /\ script = "app.py" /\ pc = "set_keyspace"
    /\ \E ok \in BOOLEAN :
         IF ok THEN /\ pc' = "read_csv"
                    /\ logged' = Log("info", "Using keyspace", 0)
               ELSE /\ pc' = "exited"
                    /\ logged' = Log("error", "Error setting keyspace", 0)
    /\ UNCHANGED <<dataVars, index, uuids, ingestVars, initDbVars, pushVars, exc, httpVars>>

AppReadCsv ==
    /\ script = "app.py" /\ pc = "read_csv"
    /\ \E ok \in BOOLEAN :
         IF ok THEN /\ pc' = "create_table"
                    /\ logged' = Log("info", "Successfully loaded csv", 0)
               ELSE /\ pc' = "exited"
                    /\ logged' = Log("error", "Error loading CSV file", 0)
    /\ UNCHANGED <<dataVars, index, uuids, ingestVars, initDbVars, pushVars, exc, httpVars>>

\* where create_table's except branch leaves the script: exit(1)
AfterCreateTableErrorNoExit == "prepare"
AfterCreateTableError == "exited"

\* create_app() -> insert_data() -> create_table()
AppCreateTable ==
    /\ script = "app.py" /\ pc = "create_table"
    /\ \E ok \in BOOLEAN :
         IF ok THEN /\ pc' = "prepare"
                    /\ logged' = Log("info", "Table 'engagement' is ready", 0)
               ELSE /\ pc' = AfterCreateTableError
                    /\ logged' = Log("error", "Error creating table", 0)
    /\ UNCHANGED <<dataVars, index, uuids, ingestVars, initDbVars, pushVars, exc, httpVars>>

\* insert_query = session.prepare(...), outside every try; batch = BatchStatement()
AppPrepareInsert ==
    /\ script = "app.py" /\ pc = "prepare"
    /\ \E ok \in BOOLEAN :
         IF ok THEN /\ pc' = "loop" /\ exc' = exc
               ELSE /\ pc' = "raised" /\ exc' = "store"
    /\ batch' = <<>>
    /\ UNCHANGED <<dataVars, index, uuids, executed, initDbVars, pushVars, logged, httpVars>>

\* the batch after the try block of app.py:107-112: clear() runs only when
\* execute returned
BatchAfterExecuteNeverCleared(ok, b) == b
BatchAfterExecute(ok, b) == IF ok THEN <<>> ELSE b

\* the flush condition of app.py:106
FlushDue(i) == (i + 1) % BATCH_EVERY = 0

\* one iteration whose record construction raises: uuid4() has run, then
\* row['Post Type'] or int(...) raises out of insert_data and create_app
AppRowRaises ==
    /\ script = "app.py" /\ pc = "loop" /\ index < MaxRows
    /\ RowRaises("Post Type", index)
    /\ uuids' = uuids + 1
    /\ index' = index + 1
    /\ pc' = "raised" /\ exc' = "row"
    /\ UNCHANGED <<dataVars, ingestVars, initDbVars, pushVars, logged, httpVars>>

\* one iteration that only adds to the batch
AppAddRow ==
    /\ script = "app.py" /\ pc = "loop" /\ index < MaxRows
    /\ ~RowRaises("Post Type", index)
    /\ ~FlushDue(index)
    /\ batch' = Append(batch, Record(index))
    /\ uuids' = uuids + 1
    /\ index' = index + 1
    /\ UNCHANGED <<dataVars, pc, executed, initDbVars, pushVars, exc, logged, httpVars>>

\* one iteration that adds to the batch and executes it
AppAddRowAndExecute ==
    /\ script = "app.py" /\ pc = "loop" /\ index < MaxRows
    /\ ~RowRaises("Post Type", index)
    /\ FlushDue(index)
    /\ \E ok \in BOOLEAN :
         LET b == Append(batch, Record(index)) IN
           /\ executed' = Append(executed, [stmts |-> b, ok |-> ok])
           /\ batch' = BatchAfterExecute(ok, b)
           /\ logged' = IF ok THEN Log("info", "Inserted records", index + 1)
                              ELSE Log("error", "Error inserting batch at index", index + 1)
    /\ uuids' = uuids + 1
    /\ index' = index + 1
    /\ UNCHANGED <<dataVars, pc, initDbVars, pushVars, exc, httpVars>>

\* what app.py:114-119 submits once the rows are exhausted
FinalSubmissions(b, ok) == <<[stmts |-> b, ok |-> ok]>>

\* iterrows() is exhausted: the final session.execute(batch); insert_data and
\* create_app return and app.run() serves
AppExecuteRemaining ==
    /\ script = "app.py" /\ pc = "loop"
    /\ \E ok \in BOOLEAN :
         /\ executed' = executed \o FinalSubmissions(batch, ok)
         /\ logged' = IF ok THEN Log("info", "Data insertion completed", 0)
                            ELSE Log("error", "Error inserting final batch", 0)
    /\ pc' = "serving"
    /\ UNCHANGED <<dataVars, index, uuids, batch, initDbVars, pushVars, exc, httpVars>>

-----------------------------------------------------------------------------
(* init_db.py *)

\* the dict built at init_db.py:54-60 from the row at position i (no id)
InitDbRecord(i) == [row |-> i]

\* client = DataAPIClient(...); db = client.get_database_by_api_endpoint(...);
\* logger.info(db.name): module level, outside every try
InitDbConnect ==
    /\ script = "init_db.py" /\ pc = "connect"
    /\ \E ok \in BOOLEAN :
         IF ok THEN /\ pc' = "read_csv" /\ exc' = exc
                    /\ logged' = Log("info", "Connected to Astra DB", 0)
               ELSE /\ pc' = "raised" /\ exc' = "store"
                    /\ logged' = logged
    /\ UNCHANGED <<dataVars, index, uuids, ingestVars, initDbVars, pushVars, httpVars>>

\* data = pd.read_csv(...): module level, outside every try
InitDbReadCsv ==
    /\ script = "init_db.py" /\ pc = "read_csv"
    /\ \E ok \in BOOLEAN :
         IF ok THEN /\ pc' = "create_table" /\ exc' = exc
               ELSE /\ pc' = "raised" /\ exc' = "csv"
    /\ UNCHANGED <<dataVars, index, uuids, ingestVars, initDbVars, pushVars, logged, httpVars>>

\* where init_db.py's create_table leaves the script after its except branch
InitDbAfterCreateTableError == "exited"

\* create_table(): list_collection_names, then create_table when absent
InitDbCreateTable ==
    /\ script = "init_db.py" /\ pc = "create_table"
    /\ \E outcome \in {"list_raises", "exists", "created", "create_raises"} :
         IF outcome \in {"list_raises", "create_raises"}
         THEN /\ pc' = InitDbAfterCreateTableError
              /\ logged' = Log("error", "Error creating table", 0)
         ELSE /\ pc' = "loop"
              /\ logged' = IF outcome = "created" THEN Log("info", "Created table", 0)
                                                  ELSE Log("info", "Table already exists", 0)
    /\ records' = <<>>
    /\ UNCHANGED <<dataVars, index, uuids, ingestVars, inserted, pushVars, exc, httpVars>>

\* one iteration of init_db.py:53-61
InitDbAddRow ==
    /\ script = "init_db.py" /\ pc = "loop" /\ index < MaxRows
    /\ ~RowRaises("Post Type", index)
    /\ records' = Append(records, InitDbRecord(index))
    /\ index' = index + 1
    /\ UNCHANGED <<dataVars, pc, uuids, ingestVars, inserted, pushVars, exc, logged, httpVars>>

\* an iteration that raises: caught by the try around the whole of insert_data
InitDbRowRaises ==
    /\ script = "init_db.py" /\ pc = "loop" /\ index < MaxRows
    /\ RowRaises("Post Type", index)
    /\ index' = index + 1
    /\ logged' = Log("error", "Error inserting data", 0)
    /\ pc' = "done"
    /\ UNCHANGED <<dataVars, uuids, ingestVars, initDbVars, pushVars, exc, httpVars>>

\* rows exhausted: db.insert_many(TABLE_NAME, records)
InitDbInsertMany ==
    /\ script = "init_db.py" /\ pc = "loop"
    /\ \E ok \in BOOLEAN :
         /\ inserted' = Append(inserted, [docs |-> records, ok |-> ok])
         /\ logged' = IF ok THEN Log("info", "Inserted records", Len(records))
                            ELSE Log("error", "Error inserting data", 0)
    /\ pc' = "done"
    /\ UNCHANGED <<dataVars, index, uuids, ingestVars, records, pushVars, exc, httpVars>>

-----------------------------------------------------------------------------
(* push_data.py *)

\* the entry appended at push_data.py:92-101 for the row at position i
VecRecord(i) ==
    [text |-> i, metadata |-> [content |-> i, id |-> uuids + 1, metrics |-> i]]

PushConnect ==
    /\ script = "push_data.py" /\ pc = "connect"
    /\ \E ok \in BOOLEAN :
         IF ok THEN /\ pc' = "set_keyspace"
                    /\ logged' = Log("info", "Connected to Astra DB", 0)
               ELSE /\ pc' = "exited"
                    /\ logged' = Log("error", "Failed to connect to Astra DB", 0)
    /\ UNCHANGED <<dataVars, index, uuids, ingestVars, initDbVars, pushVars, exc, httpVars>>

PushSetKeyspace ==
    /\ script = "push_data.py" /\ pc = "set_keyspace"
    /\ \E ok \in BOOLEAN :
         IF ok THEN /\ pc' = "vector_store"
                    /\ logged' = Log("info", "Using keyspace", 0)
               ELSE /\ pc' = "exited"
                    /\ logged' = Log("error", "Error setting keyspace", 0)
    /\ UNCHANGED <<dataVars, index, uuids, ingestVars, initDbVars, pushVars, exc, httpVars>>

\* push_data.py:59-71: vector_store stays None without OPENAI_API_KEY or when
\* the constructors raise
PushInitVectorStore ==
    /\ script = "push_data.py" /\ pc = "vector_store"
    /\ \E outcome \in {"no_key", "initialized", "raises"} :
         /\ vector_store' = (outcome = "initialized")
         /\ logged' = CASE outcome = "no_key" -> logged
                        [] outcome = "initialized" -> Log("info", "Astra Vector Store initialized", 0)
                        [] outcome = "raises" -> Log("warning", "Astra Vector Store not configured properly", 0)
    /\ pc' = "read_csv"
    /\ UNCHANGED <<dataVars, index, uuids, ingestVars, initDbVars, records_to_vectorize,
                   add_texts_calls, search_calls, similar_posts, exc, httpVars>>

PushReadCsv ==
    /\ script = "push_data.py" /\ pc = "read_csv"
    /\ \E ok \in BOOLEAN :
         IF ok THEN /\ pc' = "insert_data"
                    /\ logged' = Log("info", "Successfully loaded csv", 0)
               ELSE /\ pc' = "exited"
                    /\ logged' = Log("error", "Error loading CSV file", 0)
    /\ UNCHANGED <<dataVars, index, uuids, ingestVars, initDbVars, pushVars, exc, httpVars>>

\* insert_data(): the guard of push_data.py:83-85, then the empty list
PushInsertData ==
    /\ script = "push_data.py" /\ pc = "insert_data"
    /\ IF ~vector_store
       THEN /\ logged' = Log("error", "Vector store is not initialized", 0)
            /\ pc' = "analyze"
       ELSE /\ logged' = logged
            /\ pc' = "loop"
    /\ records_to_vectorize' = <<>>
    /\ UNCHANGED <<dataVars, index, uuids, ingestVars, initDbVars, vector_store,
                   add_texts_calls, search_calls, similar_posts, exc, httpVars>>

\* _flush_to_vector_store(records): add_texts, its exception caught and logged
Flush(recs, ok) == Append(add_texts_calls, [texts |-> recs, ok |-> ok])

\* an iteration that raises before the append: the except of push_data.py:107
\* logs it; the flush check of line 103 is not reached.  row['post_type']
\* raises before uuid4() runs, int(...) after it.
PushRowRaises ==
    /\ script = "push_data.py" /\ pc = "loop" /\ index < MaxRows
    /\ RowRaises("post_type", index)
    /\ uuids' = IF columns # "post_type" THEN uuids ELSE uuids + 1
    /\ logged' = Log("error", "Error processing row", index + 1)
    /\ index' = index + 1
    /\ UNCHANGED <<dataVars, pc, ingestVars, initDbVars, pushVars, exc, httpVars>>

PushAddRow ==
    /\ script = "push_data.py" /\ pc = "loop" /\ index < MaxRows
    /\ ~RowRaises("post_type", index)
    /\ (index + 1) % batch_size # 0
    /\ records_to_vectorize' = Append(records_to_vectorize, VecRecord(index))
    /\ uuids' = uuids + 1
    /\ index' = index + 1
    /\ UNCHANGED <<dataVars, pc, ingestVars, initDbVars, vector_store, add_texts_calls,
                   search_calls, similar_posts, exc, logged, httpVars>>

PushAddRowAndFlush ==
    /\ script = "push_data.py" /\ pc = "loop" /\ index < MaxRows
    /\ ~RowRaises("post_type", index)
    /\ (index + 1) % batch_size = 0
    /\ \E ok \in BOOLEAN :
         /\ add_texts_calls' = Flush(Append(records_to_vectorize, VecRecord(index)), ok)
         /\ logged' = IF ok THEN Log("info", "Vectorized and stored records up to index", index + 1)
                            ELSE Append(Log("error", "Error vectorizing records", 0),
                                        <<"info", "Vectorized and stored records up to index", index + 1>>)
    /\ records_to_vectorize' = <<>>
    /\ uuids' = uuids + 1
    /\ index' = index + 1
    /\ UNCHANGED <<dataVars, pc, ingestVars, initDbVars, vector_store,
                   search_calls, similar_posts, exc, httpVars>>

\* rows exhausted: push_data.py:110-112
PushFlushRemaining ==
    /\ script = "push_data.py" /\ pc = "loop"
    /\ IF records_to_vectorize # <<>>
       THEN \E ok \in BOOLEAN :
              /\ add_texts_calls' = Flush(records_to_vectorize, ok)
              /\ logged' = IF ok THEN Log("info", "Vectorized and stored remaining", 0)
                                 ELSE Append(Log("error", "Error vectorizing records", 0),
                                             <<"info", "Vectorized and stored remaining", 0>>)
       ELSE UNCHANGED <<add_texts_calls, logged>>
    /\ pc' = "analyze"
    /\ UNCHANGED <<dataVars, index, uuids, ingestVars, initDbVars, vector_store,
                   records_to_vectorize, search_calls, similar_posts, exc, httpVars>>

RECURSIVE Concat(_)
Concat(ss) == IF ss = <<>> THEN <<>> ELSE Head(ss) \o Concat(Tail(ss))

\* the documents the collection holds after this run's successful add_texts
StoredDocs ==
    Concat([k \in DOMAIN add_texts_calls |->
              IF add_texts_calls[k].ok THEN add_texts_calls[k].texts ELSE <<>>])

\* the list comprehension of push_data.py:129-139 over the search results
ShapeResults(results) ==
    [k \in DOMAIN results |->
       [id |-> results[k].metadata.id,
        post_type |-> results[k].metadata.content,
        metrics |-> results[k].metadata.metrics]]

Min(a, b) == IF a < b THEN a ELSE b

\* vector_store.similarity_search(post_type, k=k): the k nearest documents of
\* the collection, fewer when it holds fewer
SimilaritySearch(k) == SubSeq(StoredDocs, 1, Min(k, Len(StoredDocs)))

\* analyze_post_type("carousel", top_k=3)
PushAnalyzePostType ==
    /\ script = "push_data.py" /\ pc = "analyze"
    /\ IF ~vector_store
       THEN /\ logged' = Log("error", "Vector store not initialized", 0)
            /\ similar_posts' = <<>>
            /\ search_calls' = search_calls
       ELSE /\ search_calls' = search_calls + 1
            /\ \/ /\ logged' = Log("error", "Error performing similarity search", 0)
                  /\ similar_posts' = <<>>
               \/ /\ similar_posts' = ShapeResults(SimilaritySearch(top_k))
                  /\ logged' = logged
    /\ pc' = "done"
    /\ UNCHANGED <<dataVars, index, uuids, ingestVars, initDbVars, vector_store,
                   records_to_vectorize, add_texts_calls, exc, httpVars>>

-----------------------------------------------------------------------------
(* app.py: the routes create_app() registers *)

MaxStoreRows == 2       \* most rows the engagement table holds on the request path

PostTypes == {"carousel", "video"}
Metrics == {10, 20}

Rows == [post_type : PostTypes, likes : Metrics, comments : Metrics,
         shares : Metrics, total_engagement : Metrics]

Tables == UNION {[1..n -> Rows] : n \in 0..MaxStoreRows}

\* request.args.get('post_type'): None when the parameter is absent
PostTypeArgs == {None, "", "carousel", "video", "reel"}

RECURSIVE SelectSeq2(_, _)
SelectSeq2(s, p) ==
    IF s = <<>> THEN <<>>
    ELSE IF Head(s).post_type = p THEN <<Head(s)>> \o SelectSeq2(Tail(s), p)
         ELSE SelectSeq2(Tail(s), p)

\* SELECT ... FROM engagement WHERE post_type = ?
SelectWhere(t, p) == SelectSeq2(t, p)

\* `for row in rows` over the driver's ResultSet: the loop yields the rows the
\* ResultSet currently holds and leaves it empty (ResultSet.next sets
\* _current_rows = [] when the last page is exhausted), so a second loop over
\* the same object yields nothing
IterateRewindable(rs) == [yielded |-> rs, left |-> rs]
Iterate(rs) == [yielded |-> rs, left |-> <<>>]

RECURSIVE Sum(_)
Sum(xs) == IF xs = <<>> THEN 0 ELSE Head(xs) + Sum(Tail(xs))

RECURSIVE Gcd(_, _)
Gcd(a, b) == IF b = 0 THEN a ELSE Gcd(b, a % b)

\* the real number n / d, in lowest terms
Ratio(n, d) == [num |-> n \div Gcd(n, d), den |-> d \div Gcd(n, d)]

\* sum(xs) / len(xs) if xs else 0
Mean(xs) == IF xs # <<>> THEN Ratio(Sum(xs), Len(xs)) ELSE Ratio(0, 1)

\* the guard of app.py:132, `if not post_type`
MissingPostTypeOnlyNone(p) == p = None
MissingPostType(p) == p = None \/ p = ""

\* the body of the 200 response of app.py:142-153
AnalyzeBody(p, rows) ==
    LET it1 == Iterate(rows)
        likes == [k \in DOMAIN it1.yielded |-> it1.yielded[k].likes]
        it2 == Iterate(it1.left)
        comments == [k \in DOMAIN it2.yielded |-> it2.yielded[k].comments]
        it3 == Iterate(it2.left)
        shares == [k \in DOMAIN it3.yielded |-> it3.yielded[k].shares]
        it4 == Iterate(it3.left)
        total_engagement == [k \in DOMAIN it4.yielded |-> it4.yielded[k].total_engagement]
    IN [post_type |-> p,
        avg_likes |-> Mean(likes),
        avg_comments |-> Mean(comments),
        avg_shares |-> Mean(shares),
        avg_total_engagement |-> Mean(total_engagement)]

\* GET /analyze
Analyze ==
    /\ script = "app.py" /\ pc = "serving"
    /\ \E p \in PostTypeArgs, outcome \in {"ok", "prepare_raises", "execute_raises"} :
         IF MissingPostType(p)
         THEN response' = [route |-> "/analyze", arg |-> p, status |-> 400,
                           body |-> [error |-> "Please provide a 'post_type' parameter."],
                           session_calls |-> <<>>, backend |-> "not called",
                           log |-> <<>>]
         ELSE IF outcome = "ok"
         THEN response' = [route |-> "/analyze", arg |-> p, status |-> 200,
                           body |-> AnalyzeBody(p, SelectWhere(table, p)),
                           session_calls |-> <<"prepare", "execute">>, backend |-> outcome,
                           log |-> <<>>]
         ELSE response' = [route |-> "/analyze", arg |-> p, status |-> 500,
                           body |-> [error |-> "str(e)"],
                           session_calls |-> IF outcome = "prepare_raises"
                                             THEN <<"prepare">>
                                             ELSE <<"prepare", "execute">>,
                           backend |-> outcome,
                           log |-> <<<<"error", "Error during analysis", 0>>>>]
    /\ UNCHANGED <<dataVars, pc, index, uuids, ingestVars, initDbVars, pushVars, exc, logged, table>>

\* GET /post_types
GetPostTypes ==
    /\ script = "app.py" /\ pc = "serving"
    /\ \E outcome \in {"ok", "prepare_raises", "execute_raises"} :
         IF outcome = "ok"
         THEN response' = [route |-> "/post_types", arg |-> None, status |-> 200,
                           body |-> [post_types |-> {table[k].post_type : k \in DOMAIN table}],
                           session_calls |-> <<"prepare", "execute">>, backend |-> outcome,
                           log |-> <<>>]
         ELSE response' = [route |-> "/post_types", arg |-> None, status |-> 500,
                           body |-> [error |-> "str(e)"],
                           session_calls |-> IF outcome = "prepare_raises"
                                             THEN <<"prepare">>
                                             ELSE <<"prepare", "execute">>,
                           backend |-> outcome,
                           log |-> <<<<"error", "Error fetching post types", 0>>>>]
    /\ UNCHANGED <<dataVars, pc, index, uuids, ingestVars, initDbVars, pushVars, exc, logged, table>>

\* GET /
Index ==
    /\ script = "app.py" /\ pc = "serving"
    /\ response' = [route |-> "/", arg |-> None, status |-> 200,
                    body |-> [text |-> "Social Media Performance Analysis API"],
                    session_calls |-> <<>>, backend |-> "not called", log |-> <<>>]
    /\ UNCHANGED <<dataVars, pc, index, uuids, ingestVars, initDbVars, pushVars, exc, logged, table>>

-----------------------------------------------------------------------------

InitCommon ==
    /\ columns \in Headers
    /\ bad_row \in 0..MaxRows
    /\ index = 0
    /\ uuids = 0
    /\ batch = <<>>
    /\ executed = <<>>
    /\ records = <<>>
    /\ inserted = <<>>
    /\ vector_store = FALSE
    /\ records_to_vectorize = <<>>
    /\ add_texts_calls = <<>>
    /\ search_calls = 0
    /\ similar_posts = None
    /\ exc = "none"
    /\ logged = <<>>
    /\ table = <<>>
    /\ response = NoResponse

Init ==
    /\ script \in {"app.py", "init_db.py"}
    /\ pc = "connect"
    /\ InitCommon

Next ==
    \/ AppConnect
    \/ AppSetKeyspace
    \/ AppReadCsv
    \/ AppCreateTable
    \/ AppPrepareInsert
    \/ AppRowRaises
    \/ AppAddRow
    \/ AppAddRowAndExecute
    \/ AppExecuteRemaining
    \/ InitDbConnect
    \/ InitDbReadCsv
    \/ InitDbCreateTable
    \/ InitDbAddRow
    \/ InitDbRowRaises
    \/ InitDbInsertMany

Spec == Init /\ [][Next]_vars

InitPush ==
    /\ script = "push_data.py"
    /\ pc = "connect"
    /\ InitCommon

NextPush ==
    \/ PushConnect
    \/ PushSetKeyspace
    \/ PushInitVectorStore
    \/ PushReadCsv
    \/ PushInsertData
    \/ PushRowRaises
    \/ PushAddRow
    \/ PushAddRowAndFlush
    \/ PushFlushRemaining
    \/ PushAnalyzePostType

SpecPush == InitPush /\ [][NextPush]_vars

\* app.py once app.run() serves: here after a CSV without rows was loaded; the
\* engagement table holds whatever earlier runs left in it
InitHttp ==
    /\ script = "app.py"
    /\ pc = "serving"
    /\ columns = "Post Type"
    /\ bad_row = 0
    /\ index = 0
    /\ uuids = 0
    /\ batch = <<>>
    /\ executed = <<[stmts |-> <<>>, ok |-> TRUE]>>
    /\ records = <<>>
    /\ inserted = <<>>
    /\ vector_store = FALSE
    /\ records_to_vectorize = <<>>
    /\ add_texts_calls = <<>>
    /\ search_calls = 0
    /\ similar_posts = None
    /\ exc = "none"
    /\ logged = << <<"info", "Connected to Astra DB", 0>>,
                   <<"info", "Using keyspace", 0>>,
                   <<"info", "Successfully loaded csv", 0>>,
                   <<"info", "Table 'engagement' is ready", 0>>,
                   <<"info", "Data insertion completed", 0>> >>
    /\ table \in Tables
    /\ response = NoResponse

NextHttp ==
    \/ Analyze
    \/ GetPostTypes
    \/ Index

SpecHttp == InitHttp /\ [][NextHttp]_vars

-----------------------------------------------------------------------------
(* Properties *)

CeilDiv(n, d) == (n + d - 1) \div d

\* the statements of every session.execute(batch) call, concatenated
Submitted == Concat([k \in DOMAIN executed |-> executed[k].stmts])

NoSubmissionFailed == \A k \in DOMAIN executed : executed[k].ok

\* the records app.py builds from the first n rows, in row order
Input(n) == [k \in 1..n |-> [id |-> k, row |-> k - 1]]

CreateTableFailed ==
    \E k \in DOMAIN logged : logged[k] = <<"error", "Error creating table", 0>>

\* C1: when app.py has loaded a CSV of n >= 1 rows and no submission failed,
\* it made exactly ceil(n/100) submissions, each of 100 statements except
\* possibly the last, which carries the remainder.
C1_CeilBatches ==
    (script = "app.py" /\ pc = "serving" /\ index >= 1 /\ NoSubmissionFailed)
    => /\ Len(executed) = CeilDiv(index, 100)
       /\ \A k \in DOMAIN executed :
            Len(executed[k].stmts) =
              IF k < Len(executed) THEN 100 ELSE index - 100 * (Len(executed) - 1)

\* C2: no record of a failed submission is part of a later submission.
C2_FailedBatchSkipped ==
    \A i, j \in DOMAIN executed :
      (i < j /\ ~executed[i].ok)
      => Range(executed[i].stmts) \cap Range(executed[j].stmts) = {}

\* C3: every submission to the store carries at least one record.
C3_NoEmptySubmission ==
    \A k \in DOMAIN executed : executed[k].stmts # <<>>

\* C4: the pending batch never holds more than 100 records and no submission
\* carries more than 100, in app.py and in push_data.py.
C4_BatchAtMost100 ==
    /\ Len(batch) <= 100
    /\ \A k \in DOMAIN executed : Len(executed[k].stmts) <= 100
    /\ Len(records_to_vectorize) <= 100
    /\ \A k \in DOMAIN add_texts_calls : Len(add_texts_calls[k].texts) <= 100

\* the arithmetic mean of field f over the rows of the table whose post_type
\* is p, 0 when there is none
MatchedMean(p, f) ==
    LET matched == {k \in DOMAIN table : table[k].post_type = p}
        RECURSIVE Total(_)
        Total(ks) == IF ks = {} THEN 0
                     ELSE LET k == CHOOSE x \in ks : TRUE
                          IN table[k][f] + Total(ks \ {k})
    IN IF matched = {} THEN Ratio(0, 1)
       ELSE Ratio(Total(matched), Cardinality(matched))

\* C5: a /analyze request with a non-empty post_type whose store calls return
\* is answered 200 with each of the four averages equal to the mean of that
\* field over the rows of the table with that post_type, 0 when none matches.
C5_AveragesOverMatchedRows ==
    (response.route = "/analyze" /\ response.arg \notin {None, ""}
       /\ response.backend = "ok")
    => /\ response.status = 200
       /\ response.body.avg_likes = MatchedMean(response.arg, "likes")
       /\ response.body.avg_comments = MatchedMean(response.arg, "comments")
       /\ response.body.avg_shares = MatchedMean(response.arg, "shares")
       /\ response.body.avg_total_engagement = MatchedMean(response.arg, "total_engagement")

\* C6: a /analyze request without post_type, or with an empty one, is answered
\* 400 with an error body, and its handler makes no call on the session.
C6_MissingPostTypeIs400 ==
    (response.route = "/analyze" /\ response.arg \in {None, ""})
    => /\ response.status = 400
       /\ "error" \in DOMAIN response.body
       /\ response.session_calls = <<>>

C6_Witness ==
    /\ response.route = "/analyze"
    /\ response.arg = ""
    /\ response.status = 400

\* C7: no exception of a store call leaves app.py uncaught, and a route whose
\* store call raised answers 500 with an error key.
C7_NoRawStoreException ==
    /\ script = "app.py" => exc # "store"
    /\ (response.route \in {"/analyze", "/post_types"}
          /\ response.backend \in {"prepare_raises", "execute_raises"})
       => (response.status = 500 /\ "error" \in DOMAIN response.body)

\* C8: once create_table has failed the script has exited, no batch and no
\* insert_many was ever submitted and no request is served.
C8_CreateTableFailureAborts ==
    CreateTableFailed
    => /\ pc = "exited"
       /\ executed = <<>>
       /\ inserted = <<>>
       /\ response = NoResponse

C8_Witness ==
    /\ script = "app.py"
    /\ CreateTableFailed
    /\ pc = "exited"

\* what analyze_post_type returns when the search raised (push_data.py:142)
SearchRaisedReturn == <<>>

\* C9: with vector_store unset, analyze_post_type makes no search call and
\* returns something that neither a search without matches nor a search that
\* raised returns.
C9_NotConfiguredDistinguishable ==
    (script = "push_data.py" /\ pc = "done" /\ ~vector_store)
    => /\ search_calls = 0
       /\ similar_posts \notin {ShapeResults(<<>>), SearchRaisedReturn}

\* C10: while no submission of app.py has failed, the submitted statements
\* followed by the pending batch are the records of the rows read so far, in
\* row order, and once insert_data has returned the submitted statements alone
\* are the records of all rows.
C10_SubmittedEqualsInput ==
    (script = "app.py" /\ NoSubmissionFailed)
    => /\ pc = "loop" => Submitted \o batch = Input(index)
       /\ pc = "serving" => Submitted = Input(index)

C10_Witness ==
    /\ script = "app.py"
    /\ pc = "serving"
    /\ NoSubmissionFailed
    /\ index = 250
    /\ Len(executed) = 3

=============================================================================
